---- MODULE Spec2Model ----
(***************************************************************************)
(* The hostel allocation engine (services/allocationEngine.js): the batch  *)
(* runner runAllocation, the single-application allocator allocateBed with *)
(* its row-locking transaction, and the waitlist manager addToWaitlist,    *)
(* over the PostgreSQL store declared by the initial migration.            *)
(*                                                                         *)
(* Every store statement is one atomic step.  Statements of a transaction  *)
(* write to a staging record that becomes visible at commit; row locks are *)
(* held from the statement that takes them until commit or rollback.       *)
(* Statements outside a transaction are autocommitted (READ COMMITTED).    *)
(***************************************************************************)
EXTENDS Integers, Sequences, FiniteSets, TLC

\* ---------------------------------------------------------------- bounds
MaxApps == 3
MaxBeds == 2
MaxFaults == 2
MaxCalls == 3

\* ------------------------------------------------------ program constants
NULL == 0
CandidateLimit == 10

Apps == 1..MaxApps
Beds == 1..MaxBeds
Rooms == Beds
Hostels == {1, 2}
Runners == {"r1", "r2"}
Callers == {"c1", "c2"}
Assigners == {"m1", "m2"}
Submitters == {"s1", "s2"}
Procs == Runners \cup Callers \cup Assigners \cup Submitters

ApplicationStatus == {"PENDING", "IN_PROGRESS", "ALLOCATED", "REJECTED", "WAITLISTED"}
RoomStatus == {"AVAILABLE", "OCCUPIED", "MAINTENANCE", "RESERVED"}
PriorityCategories == {"NONE", "HANDICAPPED", "MERIT"}

\* What appStatus holds for an application that has no row in the store.
NoRow == "NO_ROW"

VARIABLES
    appInfo,       \* applications: studentId, preferences, appliedAt, priorityCategory
    appStatus,     \* applications.status
    roomStatus,    \* rooms.status
    bedOcc,        \* beds.occupied_by
    allocations,   \* rows of allocations
    waitlist,      \* rows of waitlist_entries
    auditLogs,     \* rows of audit_logs
    notifications, \* e-mails handed to the notifier
    errLog,        \* console.error lines of the engine
    faults,        \* store errors the environment may still inject
    actor,         \* allocatedBy of each invocation
    arg,           \* the application object a direct caller passes
    calls,         \* direct calls of addToWaitlist made so far
    req,           \* POST /rooms/:id/assign: the request and what it has read
    createdApps,   \* application rows created by a manual assignment
    pc,            \* position of each invocation
    queue,         \* runAllocation: the applications selected by findMany
    idx,           \* runAllocation: position in the for loop
    stats,         \* runAllocation: stats
    tx,            \* allocateBed: the open transaction
    newRank,       \* addToWaitlist: newRank
    result         \* what the invocation returned

storeVars == <<appStatus, roomStatus, bedOcc, allocations, waitlist, auditLogs>>
\* What no statement of the allocation engine writes.
envVars == <<appInfo, actor, arg, calls, req, createdApps>>
runVars == <<queue, idx, stats>>
vars == <<appInfo, appStatus, roomStatus, bedOcc, allocations, waitlist, auditLogs,
          notifications, errLog, faults, actor, arg, calls, req, createdApps, pc,
          queue, idx, stats, tx, newRank, result>>

\* ------------------------------------------------------------ the schema
\* One bed per room; rooms alternate between the two hostels.
RoomOf(b) == b
HostelOf(r) == IF r % 2 = 1 THEN 1 ELSE 2
StudentOf(a) == appInfo[a].studentId

Range(s) == {s[i] : i \in 1..Len(s)}
Min(a, b) == IF a < b THEN a ELSE b

RECURSIVE SetToSeqAsc(_)
SetToSeqAsc(S) ==
    IF S = {} THEN <<>>
    ELSE LET m == CHOOSE x \in S : \A y \in S : x <= y
         IN <<m>> \o SetToSeqAsc(S \ {m})

Take(s, n) == SubSeq(s, 1, Min(n, Len(s)))

\* ------------------------------------------------- runAllocation: ordering
\* ORDER BY priority_category DESC, applied_at ASC.  PostgreSQL compares text
\* values by their characters and treats NULL as larger than every value, so
\* DESC puts NULL first, then MERIT, then HANDICAPPED.
PrioKey(c) == CASE c = "NONE" -> 3
                [] c = "MERIT" -> 2
                [] c = "HANDICAPPED" -> 1

OrderBefore(a, b) ==
    \/ PrioKey(appInfo[a].priorityCategory) > PrioKey(appInfo[b].priorityCategory)
    \/ /\ PrioKey(appInfo[a].priorityCategory) = PrioKey(appInfo[b].priorityCategory)
       /\ appInfo[a].appliedAt < appInfo[b].appliedAt

\* The selection without the status filter's exclusion of IN_PROGRESS.
SelectedApps_IncludesInProgress ==
    {a \in Apps : appStatus[a] \in {"PENDING", "WAITLISTED", "IN_PROGRESS"}}

RECURSIVE OrderedApps(_)
OrderedApps(S) ==
    IF S = {} THEN <<>>
    ELSE LET m == CHOOSE x \in S : \A y \in S \ {x} : OrderBefore(x, y)
         IN <<m>> \o OrderedApps(S \ {m})

SelectedApps == {a \in Apps : appStatus[a] \in {"PENDING", "WAITLISTED"}}

Snapshot(a) == [id |-> a, status |-> appStatus[a], hasStudent |-> TRUE]

\* The application object the invocation is working on.
CurApp(p) ==
    IF p \in Runners THEN queue[p][idx[p]]
    ELSE IF p \in Assigners THEN [id |-> req[p].app]
    ELSE arg[p]

LoopNext(p) == IF idx[p] < Len(queue[p]) THEN "r_mark" ELSE "r_audit"

NoTx == [cands |-> <<>>, ci |-> 0, locked |-> NULL, staged |-> FALSE,
         delWl |-> FALSE, aborted |-> FALSE]
NoStats == [allocated |-> 0, waitlisted |-> 0, errors |-> 0]

\* The rows of beds.
BedRows == DOMAIN bedOcc

\* No row of the application is in the store.
RowMissing(a) == appStatus[a] = NoRow

\* Row locks held by open transactions.
BedLocked(b, p) == \E q \in Procs \ {p} : tx[q].locked = b
AppLocked(a, p) == \E q \in Procs \ {p} : tx[q].staged /\ CurApp(q).id = a
WaitlistLocked(a, p) ==
    \E q \in Procs \ {p} : tx[q].staged /\ tx[q].delWl /\ CurApp(q).id = a

CanFault == faults > 0


ActorIsUser(p) == actor[p] # "system"

\* console.error lines
TxErrorLine(p) == [kind |-> "Transaction error", app |-> CurApp(p).id, proc |-> p]
ProcessingErrorLine(p) ==
    [kind |-> "Error processing application", app |-> CurApp(p).id, proc |-> p]
EngineErrorLine(p) == [kind |-> "Allocation engine error", app |-> NULL, proc |-> p]

\* ------------------------------------------------------------ allocateBed
\* application.preferences of the object passed in: the row read by findMany
\* for a run, the caller's object for a direct call.
PreferredHostels(p) ==
    IF p \in Runners THEN appInfo[CurApp(p).id].preferredHostels
    ELSE arg[p].preferredHostels
RoomTypeOf(p) ==
    IF p \in Runners THEN appInfo[CurApp(p).id].roomType ELSE arg[p].roomType

\* The bed filter without the condition on the room's status.
Eligible_AnyRoomStatus(p) ==
    {b \in BedRows :
        /\ bedOcc[b] = NULL
        /\ \/ Len(PreferredHostels(p)) = 0
           \/ HostelOf(RoomOf(b)) \in Range(PreferredHostels(p))}

\* The filter with hostelId: { in: preferredHostels } applied also to an
\* empty preference list, which then matches no bed.
Eligible_EmptyListMatchesNothing(p) ==
    {b \in BedRows :
        /\ bedOcc[b] = NULL
        /\ roomStatus[RoomOf(b)] = "AVAILABLE"
        /\ HostelOf(RoomOf(b)) \in Range(PreferredHostels(p))}

\* where: { occupiedBy: null, room: { status: 'AVAILABLE', block: { hostelId: in } } }
Eligible(p) ==
    {b \in BedRows :
        /\ bedOcc[b] = NULL
        /\ roomStatus[RoomOf(b)] = "AVAILABLE"
        /\ \/ Len(PreferredHostels(p)) = 0
           \/ HostelOf(RoomOf(b)) \in Range(PreferredHostels(p))}

\* The candidate list in descending bed id.
CandidateBeds_Descending(p) ==
    LET s == Take(SetToSeqAsc(Eligible(p)), CandidateLimit)
    IN  [i \in 1..Len(s) |-> s[Len(s) + 1 - i]]

\* orderBy: { id: 'asc' }, take: 10
CandidateBeds(p) == Take(SetToSeqAsc(Eligible(p)), CandidateLimit)

\* LockAcquired as a plain SELECT would decide it: no notice is taken of the
\* row locks other transactions hold.
LockAcquired_IgnoresLocks(p, b) == bedOcc[b] = NULL

\* SELECT id FROM beds WHERE id = $1 AND occupied_by IS NULL
\* FOR UPDATE SKIP LOCKED LIMIT 1: one row iff the bed is free and no other
\* transaction holds its row lock.
LockAcquired(p, b) == bedOcc[b] = NULL /\ ~BedLocked(b, p)

\* allocateBed returns res to its caller: runAllocation counts a success and
\* moves to the next application, or falls back to addToWaitlist; a direct
\* caller receives the boolean.
ABReturn(p, res) ==
    IF p \in Runners
    THEN /\ result' = result
         /\ IF res
            THEN /\ stats' = [stats EXCEPT ![p].allocated = @ + 1]
                 /\ idx' = [idx EXCEPT ![p] = @ + 1]
                 /\ pc' = [pc EXCEPT ![p] = LoopNext(p)]
            ELSE /\ pc' = [pc EXCEPT ![p] = "wl_max"]
                 /\ UNCHANGED <<stats, idx>>
    ELSE /\ result' = [result EXCEPT ![p] = IF res THEN "true" ELSE "false"]
         /\ pc' = [pc EXCEPT ![p] = "c_done"]
         /\ UNCHANGED <<stats, idx>>

\* tx.bed.findMany; an empty list returns null from the transaction.
FindCandidates(p) ==
    /\ pc[p] = "ab_find"
    /\ IF CandidateBeds(p) = <<>>
       THEN /\ tx' = [tx EXCEPT ![p] = NoTx]
            /\ ABReturn(p, FALSE)
       ELSE /\ tx' = [tx EXCEPT ![p] = [NoTx EXCEPT !.cands = CandidateBeds(p), !.ci = 1]]
            /\ pc' = [pc EXCEPT ![p] = "ab_lock"]
            /\ UNCHANGED <<stats, idx, result>>
    /\ UNCHANGED <<storeVars, envVars, notifications, errLog, faults, queue, newRank>>

\* The for loop with an exhausted candidate list reported as a success.
NextCandidate_ReportsSuccess(p, aborted) ==
    IF tx[p].ci < Len(tx[p].cands)
    THEN /\ tx' = [tx EXCEPT ![p].ci = @ + 1, ![p].aborted = aborted]
         /\ UNCHANGED <<pc, stats, idx, result>>
    ELSE /\ tx' = [tx EXCEPT ![p] = NoTx]
         /\ ABReturn(p, TRUE)

\* The for loop over candidateBeds: continue with the next candidate, or
\* return null when the list is exhausted.
NextCandidate(p, aborted) ==
    IF tx[p].ci < Len(tx[p].cands)
    THEN /\ tx' = [tx EXCEPT ![p].ci = @ + 1, ![p].aborted = aborted]
         /\ UNCHANGED <<pc, stats, idx, result>>
    ELSE /\ tx' = [tx EXCEPT ![p] = NoTx]
         /\ ABReturn(p, FALSE)

\* A lock attempt whose bed update is issued outside the transaction and is
\* therefore visible, and permanent, at once.
TryLock_WritesThrough(p) ==
    /\ pc[p] = "ab_lock"
    /\ IF ~tx[p].aborted /\ bedOcc[tx[p].cands[tx[p].ci]] = NULL
          /\ ~(\E q \in Procs \ {p} : tx[q].locked = tx[p].cands[tx[p].ci])
       THEN /\ tx' = [tx EXCEPT ![p].locked = tx[p].cands[tx[p].ci]]
            /\ bedOcc' = [bedOcc EXCEPT ![tx[p].cands[tx[p].ci]] = StudentOf(CurApp(p).id)]
            /\ pc' = [pc EXCEPT ![p] = "ab_write"]
            /\ UNCHANGED <<stats, idx, result>>
       ELSE /\ NextCandidate(p, tx[p].aborted)
            /\ bedOcc' = bedOcc
    /\ UNCHANGED <<appStatus, roomStatus, allocations, waitlist, auditLogs, envVars,
                   notifications, errLog, faults, queue, newRank>>

\* A lock attempt made with a plain FOR UPDATE: it queues behind the
\* transaction that holds the row lock.
TryLock_Waits(p) ==
    /\ pc[p] = "ab_lock"
    /\ ~BedLocked(tx[p].cands[tx[p].ci], p)
    /\ IF ~tx[p].aborted /\ bedOcc[tx[p].cands[tx[p].ci]] = NULL
       THEN /\ tx' = [tx EXCEPT ![p].locked = tx[p].cands[tx[p].ci]]
            /\ pc' = [pc EXCEPT ![p] = "ab_write"]
            /\ UNCHANGED <<stats, idx, result>>
       ELSE NextCandidate(p, tx[p].aborted)
    /\ UNCHANGED <<storeVars, envVars, notifications, errLog, faults, queue, newRank>>

\* One lock attempt; on success the bed row is updated under the lock.
TryLock(p) ==
    /\ pc[p] = "ab_lock"
    /\ IF ~tx[p].aborted /\ LockAcquired(p, tx[p].cands[tx[p].ci])
       THEN /\ tx' = [tx EXCEPT ![p].locked = tx[p].cands[tx[p].ci]]
            /\ pc' = [pc EXCEPT ![p] = "ab_write"]
            /\ UNCHANGED <<stats, idx, result>>
       ELSE NextCandidate(p, tx[p].aborted)
    /\ UNCHANGED <<storeVars, envVars, notifications, errLog, faults, queue, newRank>>

\* The lock statement throws: caught, continue.  The store has aborted the
\* transaction, so its later statements fail as well.
LockError(p) ==
    /\ pc[p] = "ab_lock"
    /\ CanFault
    /\ faults' = faults - 1
    /\ NextCandidate(p, TRUE)
    /\ UNCHANGED <<storeVars, envVars, notifications, errLog, queue, newRank>>

\* Rollback with the catch of allocateBed reporting success instead of false.
Rollback_ReturnsTrue(p) ==
    /\ tx' = [tx EXCEPT ![p] = NoTx]
    /\ errLog' = errLog \cup {TxErrorLine(p)}
    /\ ABReturn(p, TRUE)

\* The transaction throws: rolled back, logged, allocateBed returns false.
Rollback(p) ==
    /\ tx' = [tx EXCEPT ![p] = NoTx]
    /\ errLog' = errLog \cup {TxErrorLine(p)}
    /\ ABReturn(p, FALSE)

\* application.update, waitlistEntry.deleteMany, allocation.create and
\* auditLog.create under the bed lock.  The application row is locked until
\* the transaction ends; audit_logs.actor_id must reference a user.
TxWrite(p) ==
    /\ pc[p] = "ab_write"
    /\ ~AppLocked(CurApp(p).id, p)
    /\ IF ActorIsUser(p)
       THEN /\ tx' = [tx EXCEPT ![p].staged = TRUE,
                                ![p].delWl = \E w \in waitlist :
                                                w.applicationId = CurApp(p).id]
            /\ pc' = [pc EXCEPT ![p] = "ab_commit"]
            /\ UNCHANGED <<stats, idx, result, errLog>>
       ELSE Rollback(p)
    /\ UNCHANGED <<storeVars, envVars, notifications, faults, queue, newRank>>

NewAllocation(p) ==
    [id |-> <<p, CurApp(p).id>>,
     applicationId |-> CurApp(p).id,
     studentId |-> StudentOf(CurApp(p).id),
     roomId |-> RoomOf(tx[p].locked),
     bedId |-> tx[p].locked,
     allocatedBy |-> actor[p]]

AllocationAudit(p) ==
    [actorId |-> actor[p], action |-> "ALLOCATE", targetType |-> "ALLOCATION",
     targetId |-> <<p, CurApp(p).id>>, details |-> NoStats]

\* A commit that also marks the room OCCUPIED once its last bed is taken.
TxCommit_MarksRoomOccupied(p) ==
    /\ pc[p] = "ab_commit"
    /\ bedOcc' = [bedOcc EXCEPT ![tx[p].locked] = StudentOf(CurApp(p).id)]
    /\ roomStatus' =
           IF \A b \in Beds : RoomOf(b) = RoomOf(tx[p].locked) => bedOcc'[b] # NULL
           THEN [roomStatus EXCEPT ![RoomOf(tx[p].locked)] = "OCCUPIED"]
           ELSE roomStatus
    /\ appStatus' = [appStatus EXCEPT ![CurApp(p).id] = "ALLOCATED"]
    /\ waitlist' = IF tx[p].delWl
                   THEN {w \in waitlist : w.applicationId # CurApp(p).id}
                   ELSE waitlist
    /\ allocations' = allocations \cup {NewAllocation(p)}
    /\ auditLogs' = auditLogs \cup {AllocationAudit(p)}
    /\ tx' = [tx EXCEPT ![p] = NoTx]
    /\ notifications' = notifications \cup
           {[kind |-> "allocation", app |-> CurApp(p).id, info |-> tx[p].locked]}
    /\ errLog' = errLog
    /\ ABReturn(p, TRUE)
    /\ UNCHANGED <<envVars, faults, queue, newRank>>

\* Commit, then the notification e-mail; reading application.student.email
\* throws when the application object carries no student, which the outer
\* catch turns into false.
TxCommit(p) ==
    /\ pc[p] = "ab_commit"
    /\ bedOcc' = [bedOcc EXCEPT ![tx[p].locked] = StudentOf(CurApp(p).id)]
    /\ appStatus' = [appStatus EXCEPT ![CurApp(p).id] = "ALLOCATED"]
    /\ waitlist' = IF tx[p].delWl
                   THEN {w \in waitlist : w.applicationId # CurApp(p).id}
                   ELSE waitlist
    /\ allocations' = allocations \cup {NewAllocation(p)}
    /\ auditLogs' = auditLogs \cup {AllocationAudit(p)}
    /\ tx' = [tx EXCEPT ![p] = NoTx]
    /\ IF CurApp(p).hasStudent
       THEN /\ notifications' = notifications \cup
                   {[kind |-> "allocation", app |-> CurApp(p).id, info |-> tx[p].locked]}
            /\ errLog' = errLog
            /\ ABReturn(p, TRUE)
       ELSE /\ notifications' = notifications
            /\ errLog' = errLog \cup {TxErrorLine(p)}
            /\ ABReturn(p, FALSE)
    /\ UNCHANGED <<roomStatus, envVars, faults, queue, newRank>>

\* A store error (timeout, connectivity, constraint) inside the transaction.
TxFail(p) ==
    /\ pc[p] \in {"ab_find", "ab_write", "ab_commit"}
    /\ CanFault
    /\ faults' = faults - 1
    /\ Rollback(p)
    /\ UNCHANGED <<storeVars, envVars, notifications, queue, newRank>>


\* ---------------------------------------------------------- addToWaitlist
BucketOf(a) ==
    IF Len(appInfo[a].preferredHostels) > 0 THEN appInfo[a].preferredHostels[1] ELSE NULL

\* findFirst({ where: hostelId ? { hostelId } : {}, orderBy: { rank: 'desc' } })
BucketEntries(h) == IF h # NULL THEN {w \in waitlist : w.hostelId = h} ELSE waitlist

MaxRank(W) == CHOOSE r \in {w.rank : w \in W} : \A w \in W : w.rank <= r

\* const hostelId = preferredHostels.length > 0 ? preferredHostels[0] : null
HostelIdOf(p) == IF Len(PreferredHostels(p)) > 0 THEN PreferredHostels(p)[1] ELSE NULL

\* newRank without the increment: the largest rank found is used again.
NewRank_Reuses(p) ==
    IF BucketEntries(HostelIdOf(p)) = {} THEN 1
    ELSE MaxRank(BucketEntries(HostelIdOf(p)))

\* const newRank = maxRankEntry ? maxRankEntry.rank + 1 : 1
NewRank(p) ==
    IF BucketEntries(HostelIdOf(p)) = {} THEN 1
    ELSE MaxRank(BucketEntries(HostelIdOf(p))) + 1

\* An upsert whose update branch rewrites the whole entry from the object
\* passed in.
Upsert_RewritesEntry(p, r) ==
    {w \in waitlist : w.applicationId # CurApp(p).id}
        \cup {[applicationId |-> CurApp(p).id, rank |-> r,
                hostelId |-> HostelIdOf(p), roomType |-> RoomTypeOf(p)]}

\* upsert({ where: { applicationId }, update: { rank }, create: { ... } })
Upsert(p, r) ==
    IF \E w \in waitlist : w.applicationId = CurApp(p).id
    THEN {IF w.applicationId = CurApp(p).id THEN [w EXCEPT !.rank = r] ELSE w :
             w \in waitlist}
    ELSE waitlist \cup {[applicationId |-> CurApp(p).id, rank |-> r,
                         hostelId |-> HostelIdOf(p), roomType |-> RoomTypeOf(p)]}

WlMax(p) ==
    /\ pc[p] = "wl_max"
    /\ newRank' = [newRank EXCEPT ![p] = NewRank(p)]
    /\ pc' = [pc EXCEPT ![p] = "wl_upsert"]
    /\ UNCHANGED <<storeVars, envVars, notifications, errLog, faults, runVars, tx, result>>

WlUpsert(p) ==
    /\ pc[p] = "wl_upsert"
    /\ ~WaitlistLocked(CurApp(p).id, p)
    /\ waitlist' = Upsert(p, newRank[p])
    /\ pc' = [pc EXCEPT ![p] = "wl_status"]
    /\ UNCHANGED <<appStatus, roomStatus, bedOcc, allocations, auditLogs, envVars,
                   notifications, errLog, faults, runVars, tx, newRank, result>>

\* application.update to WAITLISTED and the waitlist e-mail.  runAllocation
\* then counts the application as waitlisted; a direct caller gets the
\* promise resolved, or rejected with the TypeError of application.student
\* when the object carries no student.
WlStatus(p) ==
    /\ pc[p] = "wl_status"
    /\ ~AppLocked(CurApp(p).id, p)
    /\ appStatus' = [appStatus EXCEPT ![CurApp(p).id] = "WAITLISTED"]
    /\ notifications' =
           IF CurApp(p).hasStudent
           THEN notifications \cup
                   {[kind |-> "waitlist", app |-> CurApp(p).id, info |-> newRank[p]]}
           ELSE notifications
    /\ IF p \in Runners
       THEN /\ stats' = [stats EXCEPT ![p].waitlisted = @ + 1]
            /\ idx' = [idx EXCEPT ![p] = @ + 1]
            /\ pc' = [pc EXCEPT ![p] = LoopNext(p)]
            /\ result' = result
       ELSE /\ pc' = [pc EXCEPT ![p] = "c_done"]
            /\ result' = [result EXCEPT ![p] =
                              IF CurApp(p).hasStudent THEN "void" ELSE "throw"]
            /\ UNCHANGED <<stats, idx>>
    /\ newRank' = [newRank EXCEPT ![p] = 0]
    /\ UNCHANGED <<roomStatus, bedOcc, allocations, waitlist, auditLogs, envVars,
                   errLog, faults, queue, tx>>

\* ---------------------------------------------------------- runAllocation
\* The per-application catch without stats.errors++.
ProcessingError_NotCounted(p) ==
    /\ faults' = faults - 1
    /\ errLog' = errLog \cup {ProcessingErrorLine(p)}
    /\ pc' = [pc EXCEPT ![p] = "r_reset"]
    /\ newRank' = [newRank EXCEPT ![p] = 0]
    /\ UNCHANGED <<storeVars, envVars, notifications, queue, idx, stats, tx, result>>

\* The per-application catch: log, count, then reset the status.
ProcessingError(p) ==
    /\ faults' = faults - 1
    /\ errLog' = errLog \cup {ProcessingErrorLine(p)}
    /\ stats' = [stats EXCEPT ![p].errors = @ + 1]
    /\ pc' = [pc EXCEPT ![p] = "r_reset"]
    /\ newRank' = [newRank EXCEPT ![p] = 0]
    /\ UNCHANGED <<storeVars, envVars, notifications, queue, idx, tx, result>>

\* The outer catch: log and rethrow.
EngineError(p) ==
    /\ faults' = faults - 1
    /\ errLog' = errLog \cup {EngineErrorLine(p)}
    /\ pc' = [pc EXCEPT ![p] = "thrown"]
    /\ result' = [result EXCEPT ![p] = "throw"]
    /\ UNCHANGED <<storeVars, envVars, notifications, runVars, tx, newRank>>

Select(p) ==
    /\ pc[p] = "idle"
    /\ queue' = [queue EXCEPT ![p] =
                    [i \in 1..Cardinality(SelectedApps) |->
                        Snapshot(OrderedApps(SelectedApps)[i])]]
    /\ idx' = [idx EXCEPT ![p] = 1]
    /\ pc' = [pc EXCEPT ![p] = IF SelectedApps = {} THEN "r_audit" ELSE "r_mark"]
    /\ UNCHANGED <<storeVars, envVars, notifications, errLog, faults, stats, tx,
                   newRank, result>>

SelectFail(p) ==
    /\ pc[p] = "idle"
    /\ CanFault
    /\ EngineError(p)

MarkInProgress(p) ==
    /\ pc[p] = "r_mark"
    /\ ~RowMissing(CurApp(p).id)
    /\ ~AppLocked(CurApp(p).id, p)
    /\ appStatus' = [appStatus EXCEPT ![CurApp(p).id] = "IN_PROGRESS"]
    /\ pc' = [pc EXCEPT ![p] = "ab_find"]
    /\ UNCHANGED <<roomStatus, bedOcc, allocations, waitlist, auditLogs, envVars,
                   notifications, errLog, faults, runVars, tx, newRank, result>>

MarkFail(p) ==
    /\ pc[p] = "r_mark"
    /\ CanFault
    /\ ProcessingError(p)

WlFail(p) ==
    /\ pc[p] \in {"wl_max", "wl_upsert", "wl_status"}
    /\ CanFault
    /\ ProcessingError(p)

ResetStatus(p) ==
    /\ pc[p] = "r_reset"
    /\ ~RowMissing(CurApp(p).id)
    /\ ~AppLocked(CurApp(p).id, p)
    /\ appStatus' = [appStatus EXCEPT ![CurApp(p).id] =
                        IF CurApp(p).status = "WAITLISTED" THEN "WAITLISTED" ELSE "PENDING"]
    /\ idx' = [idx EXCEPT ![p] = @ + 1]
    /\ pc' = [pc EXCEPT ![p] = LoopNext(p)]
    /\ UNCHANGED <<roomStatus, bedOcc, allocations, waitlist, auditLogs, envVars,
                   notifications, errLog, faults, queue, stats, tx, newRank, result>>

ResetFail(p) ==
    /\ pc[p] = "r_reset"
    /\ CanFault
    /\ EngineError(p)

\* prisma.application.update on an id that has no row rejects ("Record to
\* update not found"): the IN_PROGRESS update lands in the per-application
\* catch, which logs and counts the error.
MarkMissing(p) ==
    /\ pc[p] = "r_mark"
    /\ RowMissing(CurApp(p).id)
    /\ errLog' = errLog \cup {ProcessingErrorLine(p)}
    /\ stats' = [stats EXCEPT ![p].errors = @ + 1]
    /\ pc' = [pc EXCEPT ![p] = "r_reset"]
    /\ newRank' = [newRank EXCEPT ![p] = 0]
    /\ UNCHANGED <<storeVars, envVars, notifications, faults, queue, idx, tx, result>>

\* The reset update inside that catch rejects for the same reason; nothing
\* catches it before the outer catch, which logs and rethrows.
ResetMissing(p) ==
    /\ pc[p] = "r_reset"
    /\ RowMissing(CurApp(p).id)
    /\ errLog' = errLog \cup {EngineErrorLine(p)}
    /\ pc' = [pc EXCEPT ![p] = "thrown"]
    /\ result' = [result EXCEPT ![p] = "throw"]
    /\ UNCHANGED <<storeVars, envVars, notifications, faults, runVars, tx, newRank>>

\* The batch record written with the counters as they were at the start.
BatchAudit_InitialStats(p) ==
    [actorId |-> actor[p], action |-> "CREATE", targetType |-> "ALLOCATION",
     targetId |-> <<p, NULL>>, details |-> NoStats]

\* createAuditLog(allocatedBy, 'CREATE', 'ALLOCATION', 'batch', { stats, ... })
BatchAudit(p) ==
    [actorId |-> actor[p], action |-> "CREATE", targetType |-> "ALLOCATION",
     targetId |-> <<p, NULL>>, details |-> stats[p]]

\* createAuditLog swallows its own failure; the run returns stats.
WriteBatchAudit(p) ==
    /\ pc[p] = "r_audit"
    /\ auditLogs' = IF ActorIsUser(p) THEN auditLogs \cup {BatchAudit(p)} ELSE auditLogs
    /\ pc' = [pc EXCEPT ![p] = "done"]
    /\ result' = [result EXCEPT ![p] = "stats"]
    /\ UNCHANGED <<appStatus, roomStatus, bedOcc, allocations, waitlist, envVars,
                   notifications, errLog, faults, runVars, tx, newRank>>

BatchAuditFail(p) ==
    /\ pc[p] = "r_audit"
    /\ CanFault
    /\ faults' = faults - 1
    /\ pc' = [pc EXCEPT ![p] = "done"]
    /\ result' = [result EXCEPT ![p] = "stats"]
    /\ UNCHANGED <<storeVars, envVars, notifications, errLog, runVars, tx, newRank>>


\* ------------------------------------------------- POST /rooms/:id/assign
\* The manual assignment of a student to a room by a warden or an
\* administrator (req.user.id is a stored user).
NoReq == [studentId |-> NULL, roomId |-> NULL, free |-> {}, bed |-> NULL, app |-> NULL]

BedsOf(r) == {b \in Beds : RoomOf(b) = r}
Students == {appInfo[a].studentId : a \in Apps}

\* The id of the application row a manual assignment creates.
NewAppId(p) == MaxApps + (IF p = "m1" THEN 1 ELSE 2)

\* res.status(code): the request is answered.
Respond(p, code) ==
    /\ pc' = [pc EXCEPT ![p] = "ma_done"]
    /\ result' = [result EXCEPT ![p] = code]

\* prisma.room.findUnique({ include: { beds: true } }) for an existing room,
\* and the lookup of the student, an existing user with role STUDENT.
AssignRequest(p) ==
    /\ pc[p] = "ma_idle"
    /\ \E s \in Students : \E r \in Rooms :
          req' = [req EXCEPT ![p] =
                     [NoReq EXCEPT !.studentId = s, !.roomId = r,
                                   !.free = {b \in BedsOf(r) : bedOcc[b] = NULL}]]
    /\ pc' = [pc EXCEPT ![p] = "ma_check"]
    /\ UNCHANGED <<storeVars, appInfo, actor, arg, calls, createdApps, notifications,
                   errLog, faults, runVars, tx, newRank, result>>

\* prisma.allocation.findFirst({ where: { studentId } }), then the choice of
\* a bed among the beds read with the room.
AssignCheck(p) ==
    /\ pc[p] = "ma_check"
    /\ IF \/ \E al \in allocations : al.studentId = req[p].studentId
          \/ req[p].free = {}
       THEN /\ Respond(p, "400")
            /\ req' = req
       ELSE /\ req' = [req EXCEPT ![p].bed =
                          CHOOSE b \in req[p].free : \A c \in req[p].free : b <= c]
            /\ pc' = [pc EXCEPT ![p] = "ma_read"]
            /\ result' = result
    /\ UNCHANGED <<storeVars, appInfo, actor, arg, calls, createdApps, notifications,
                   errLog, faults, runVars, tx, newRank>>

\* tx.bed.findUnique: a plain read of the committed row, which takes no lock;
\* an occupied bed throws and the request fails.
AssignRead(p) ==
    /\ pc[p] = "ma_read"
    /\ IF bedOcc[req[p].bed] # NULL
       THEN Respond(p, "500")
       ELSE /\ pc' = [pc EXCEPT ![p] = "ma_bed"]
            /\ result' = result
    /\ UNCHANGED <<storeVars, envVars, notifications, errLog, faults, runVars, tx,
                   newRank>>

\* tx.bed.update({ where: { id }, data: { occupiedBy } }): waits for the row
\* lock, then writes whatever the row holds by then.
AssignBed(p) ==
    /\ pc[p] = "ma_bed"
    /\ ~BedLocked(req[p].bed, p)
    /\ tx' = [tx EXCEPT ![p] = [NoTx EXCEPT !.locked = req[p].bed]]
    /\ pc' = [pc EXCEPT ![p] = "ma_find"]
    /\ UNCHANGED <<storeVars, envVars, notifications, errLog, faults, runVars, newRank,
                   result>>

\* tx.application.findFirst({ where: { studentId, status: { in: [...] } } })
AssignFind(p) ==
    /\ pc[p] = "ma_find"
    /\ LET found == {a \in Apps : /\ StudentOf(a) = req[p].studentId
                                  /\ appStatus[a] \in {"PENDING", "WAITLISTED"}}
       IN  req' = [req EXCEPT ![p].app =
                      IF found = {} THEN NULL
                      ELSE CHOOSE a \in found : \A c \in found : a <= c]
    /\ pc' = [pc EXCEPT ![p] = "ma_write"]
    /\ UNCHANGED <<storeVars, appInfo, actor, arg, calls, createdApps, notifications,
                   errLog, faults, runVars, tx, newRank, result>>

\* tx.application.update to ALLOCATED (under the row lock) or
\* tx.application.create, then tx.allocation.create and tx.auditLog.create.
AssignWrite(p) ==
    /\ pc[p] = "ma_write"
    /\ IF req[p].app # NULL
       THEN /\ ~AppLocked(req[p].app, p)
            /\ tx' = [tx EXCEPT ![p].staged = TRUE]
            /\ req' = req
       ELSE /\ req' = [req EXCEPT ![p].app = NewAppId(p)]
            /\ tx' = tx
    /\ pc' = [pc EXCEPT ![p] = "ma_commit"]
    /\ UNCHANGED <<storeVars, appInfo, actor, arg, calls, createdApps, notifications,
                   errLog, faults, runVars, newRank, result>>

ManualAllocation(p) ==
    [id |-> <<p, req[p].app>>,
     applicationId |-> req[p].app,
     studentId |-> req[p].studentId,
     roomId |-> req[p].roomId,
     bedId |-> req[p].bed,
     allocatedBy |-> actor[p]]

ManualAudit(p) ==
    [actorId |-> actor[p], action |-> "ALLOCATE", targetType |-> "ALLOCATION",
     targetId |-> <<p, req[p].app>>, details |-> NoStats]

\* The transaction commits and the request is answered 201.  No statement
\* of the transaction touches waitlist_entries.
AssignCommit(p) ==
    /\ pc[p] = "ma_commit"
    /\ bedOcc' = [bedOcc EXCEPT ![req[p].bed] = req[p].studentId]
    /\ IF req[p].app \in Apps
       THEN /\ appStatus' = [appStatus EXCEPT ![req[p].app] = "ALLOCATED"]
            /\ createdApps' = createdApps
       ELSE /\ appStatus' = appStatus
            /\ createdApps' = createdApps \cup
                   {[id |-> req[p].app, studentId |-> req[p].studentId,
                     status |-> "ALLOCATED"]}
    /\ allocations' = allocations \cup {ManualAllocation(p)}
    /\ auditLogs' = auditLogs \cup {ManualAudit(p)}
    /\ tx' = [tx EXCEPT ![p] = NoTx]
    /\ Respond(p, "201")
    /\ UNCHANGED <<roomStatus, waitlist, appInfo, actor, arg, calls, req, notifications,
                   errLog, faults, runVars, newRank>>

ManualAssignStep(p) ==
    \/ AssignRequest(p)
    \/ AssignCheck(p)
    \/ AssignRead(p)
    \/ AssignBed(p)
    \/ AssignFind(p)
    \/ AssignWrite(p)
    \/ AssignCommit(p)

\* ------------------------------------------------------ POST /applications
\* req.user.id: both requests come from sessions of the same student.
SessionUser(p) == 1

NonTerminal == {"PENDING", "WAITLISTED", "IN_PROGRESS"}

\* The applications findFirst({ where: { studentId, status: { in: [...] } } })
\* can return.
ActiveApplications(s) ==
    {a \in Apps : ~RowMissing(a) /\ StudentOf(a) = s /\ appStatus[a] \in NonTerminal}

\* The ids no application row uses; create takes the lowest.
FreeRows == {a \in Apps : RowMissing(a)}
NewRow == CHOOSE a \in FreeRows : \A b \in FreeRows : a <= b

\* res.status(code).json(...): the request is answered.
SubmitRespond(p, code) ==
    /\ pc' = [pc EXCEPT ![p] = "sb_done"]
    /\ result' = [result EXCEPT ![p] = code]

\* validationResult(req): a body whose preferences is not an object is
\* answered 400 before the store is read.
SubmitRequest(p) ==
    /\ pc[p] = "sb_idle"
    /\ \E valid \in BOOLEAN :
          IF valid
          THEN pc' = [pc EXCEPT ![p] = "sb_app"] /\ result' = result
          ELSE SubmitRespond(p, "400")
    /\ UNCHANGED <<storeVars, envVars, notifications, errLog, faults, runVars, tx,
                   newRank>>

\* const existingApplication = await prisma.application.findFirst(...)
SubmitFindApplication(p) ==
    /\ pc[p] = "sb_app"
    /\ IF ActiveApplications(SessionUser(p)) # {}
       THEN SubmitRespond(p, "400")
       ELSE pc' = [pc EXCEPT ![p] = "sb_alloc"] /\ result' = result
    /\ UNCHANGED <<storeVars, envVars, notifications, errLog, faults, runVars, tx,
                   newRank>>

\* const existingAllocation = await prisma.allocation.findFirst({ where: { studentId } })
SubmitFindAllocation(p) ==
    /\ pc[p] = "sb_alloc"
    /\ IF \E al \in allocations : al.studentId = SessionUser(p)
       THEN SubmitRespond(p, "400")
       ELSE pc' = [pc EXCEPT ![p] = "sb_create"] /\ result' = result
    /\ UNCHANGED <<storeVars, envVars, notifications, errLog, faults, runVars, tx,
                   newRank>>

\* prisma.application.create({ data: { studentId, preferences,
\* priorityCategory: priorityCategory || null, status: 'PENDING' } }), 201.
SubmitCreate(p) ==
    /\ pc[p] = "sb_create"
    /\ FreeRows # {}
    /\ appStatus' = [appStatus EXCEPT ![NewRow] = "PENDING"]
    /\ \E pref \in {<<>>, <<1>>} :
          appInfo' = [appInfo EXCEPT ![NewRow] =
                        [studentId |-> SessionUser(p), preferredHostels |-> pref,
                         roomType |-> NULL, priorityCategory |-> "NONE",
                         appliedAt |-> NewRow]]
    /\ SubmitRespond(p, "201")
    /\ UNCHANGED <<roomStatus, bedOcc, allocations, waitlist, auditLogs, actor, arg,
                   calls, req, createdApps, notifications, errLog, faults, runVars,
                   tx, newRank>>

SubmitStep(p) ==
    \/ SubmitRequest(p)
    \/ SubmitFindApplication(p)
    \/ SubmitFindAllocation(p)
    \/ SubmitCreate(p)

\* ------------------------------------------------------ DELETE /users/:id
\* An application of a running invocation that is selected and not yet
\* reached by the for loop.
AwaitingTurn(a) ==
    \E p \in Runners :
        /\ pc[p] \notin {"idle", "off", "done", "thrown"}
        /\ \E i \in 1..Len(queue[p]) :
              /\ queue[p][i].id = a
              /\ \/ i > idx[p]
                 \/ i = idx[p] /\ pc[p] = "r_mark"

\* The record auditMiddleware('DELETE', 'USER') writes after the response.
DeleteAudit(a) ==
    [actorId |-> "admin", action |-> "DELETE", targetType |-> "USER",
     targetId |-> <<"user", StudentOf(a)>>, details |-> NoStats]

\* An administrator deletes the student of application a while the
\* application awaits its turn: prisma.user.delete removes the user row and,
\* through the ON DELETE CASCADE keys, the student's applications with their
\* waitlist entries and allocations; beds.occupied_by is set to NULL.
DeleteUser(a) ==
    /\ ~RowMissing(a)
    /\ AwaitingTurn(a)
    /\ \A q \in Procs : ~(tx[q].staged /\ CurApp(q).id = a)
    /\ appStatus' = [x \in Apps |->
                        IF StudentOf(x) = StudentOf(a) THEN NoRow ELSE appStatus[x]]
    /\ waitlist' = {w \in waitlist : StudentOf(w.applicationId) # StudentOf(a)}
    /\ allocations' = {al \in allocations : al.studentId # StudentOf(a)}
    /\ bedOcc' = [b \in Beds |-> IF bedOcc[b] = StudentOf(a) THEN NULL ELSE bedOcc[b]]
    /\ auditLogs' = auditLogs \cup {DeleteAudit(a)}
    /\ UNCHANGED <<roomStatus, envVars, notifications, errLog, faults, runVars,
                   tx, newRank, result, pc>>

\* ------------------------------------------------------------ initial states
FreshStore ==
    /\ bedOcc = [b \in Beds |-> NULL]
    /\ allocations = {}
    /\ waitlist = {}
    /\ auditLogs = {}
    /\ notifications = {}
    /\ errLog = {}

NoInvocation ==
    /\ queue = [p \in Procs |-> <<>>]
    /\ idx = [p \in Procs |-> 0]
    /\ stats = [p \in Procs |-> NoStats]
    /\ tx = [p \in Procs |-> NoTx]
    /\ newRank = [p \in Procs |-> 0]
    /\ result = [p \in Procs |-> "none"]
    /\ actor = [p \in Procs |-> "admin"]

Application(a, pref, cat, at) ==
    [studentId |-> a, preferredHostels |-> pref, roomType |-> NULL,
     priorityCategory |-> cat, appliedAt |-> at]

\* Preference sets of the applications: nobody states a hostel, everybody
\* wants hostel 1, or every second application wants hostel 1.
PreferencePatterns ==
    {[a \in Apps |-> <<>>], [a \in Apps |-> <<1>>],
     [a \in Apps |-> IF a % 2 = 1 THEN <<>> ELSE <<1>>]}

NoArg == [id |-> 1, status |-> "PENDING", hasStudent |-> TRUE,
          preferredHostels |-> <<>>, roomType |-> NULL]

\* applied_at follows the application id, or runs against it.
AppliedAtOrders == {[a \in Apps |-> a], [a \in Apps |-> MaxApps + 1 - a]}

AllocateBedStep(p) ==
    \/ FindCandidates(p)
    \/ TryLock(p)
    \/ TxWrite(p)
    \/ TxCommit(p)

AllocateBedFault(p) ==
    \/ LockError(p)
    \/ TxFail(p)

AddToWaitlistStep(p) ==
    \/ WlMax(p)
    \/ WlUpsert(p)
    \/ WlStatus(p)

RunnerStep(p) ==
    \/ MarkInProgress(p)
    \/ WriteBatchAudit(p)

\* A store error outside the transaction, and the reset that follows one.
RunnerFault(p) ==
    \/ SelectFail(p)
    \/ MarkFail(p)
    \/ WlFail(p)
    \/ BatchAuditFail(p)
    \/ ResetStatus(p)

\* ---------------------------------------------------------------- Spec
\* Two concurrent runAllocation invocations over pending applications (the
\* last application is REJECTED and never selected), with one store error
\* at any statement.
Init ==
    /\ appInfo \in {[a \in Apps |-> Application(a, prefs[a], "NONE", a)] :
                        prefs \in PreferencePatterns}
    /\ appStatus = [a \in Apps |-> IF a < MaxApps THEN "PENDING" ELSE "REJECTED"]
    /\ roomStatus = [r \in Rooms |-> "AVAILABLE"]
    /\ FreshStore
    /\ NoInvocation
    /\ faults = 1
    /\ arg = [p \in Procs |-> NoArg]
    /\ calls = 0
    /\ req = [p \in Assigners |-> NoReq]
    /\ createdApps = {}
    /\ pc = [p \in Procs |-> IF p \in Runners THEN "idle" ELSE "off"]

Next ==
    \E p \in Runners :
        \/ Select(p)
        \/ RunnerStep(p)
        \/ AllocateBedStep(p)
        \/ AddToWaitlistStep(p)
        \/ RunnerFault(p)
        \/ AllocateBedFault(p)

Spec == Init /\ [][Next]_vars

\* ------------------------------------------------------------- SpecSeq
\* Single-threaded runs without store errors: r1 runs, and r2 runs once r1
\* has returned.  Priorities, submission order, preferences and the rooms
\* open for allocation vary.
InitSeq ==
    /\ appInfo \in {[a \in Apps |-> Application(a, prefs[a], cats[a], ats[a])] :
                        prefs \in PreferencePatterns,
                        cats \in [Apps -> PriorityCategories],
                        ats \in AppliedAtOrders}
    /\ appStatus \in {[a \in Apps |-> IF a < MaxApps THEN "PENDING" ELSE st] :
                        st \in {"PENDING", "REJECTED"}}
    /\ roomStatus \in {[r \in Rooms |-> "AVAILABLE"],
                       [r \in Rooms |-> IF r = 1 THEN "AVAILABLE" ELSE "MAINTENANCE"]}
    /\ FreshStore
    /\ NoInvocation
    /\ faults = 0
    /\ arg = [p \in Procs |-> NoArg]
    /\ calls = 0
    /\ req = [p \in Assigners |-> NoReq]
    /\ createdApps = {}
    /\ pc = [p \in Procs |-> IF p \in Runners THEN "idle" ELSE "off"]

SelectSecond == pc["r1"] = "done" /\ Select("r2")

NextSeq ==
    \/ Select("r1")
    \/ SelectSecond
    \/ \E p \in Runners : RunnerStep(p) \/ AllocateBedStep(p) \/ AddToWaitlistStep(p)

SpecSeq == InitSeq /\ [][NextSeq]_vars

\* ----------------------------------------------------------- SpecFault
\* One runAllocation with store errors; the first application is PENDING or
\* already WAITLISTED (rank 1 of its bucket) from an earlier run.
InitFault ==
    /\ appInfo \in {[a \in Apps |-> Application(a, prefs[a], "NONE", a)] :
                        prefs \in PreferencePatterns}
    /\ \E st \in {"PENDING", "WAITLISTED"} :
          /\ appStatus = [a \in Apps |-> IF a = 1 THEN st ELSE "PENDING"]
          /\ waitlist = IF st = "WAITLISTED"
                        THEN {[applicationId |-> 1, rank |-> 1, hostelId |-> BucketOf(1),
                               roomType |-> NULL]}
                        ELSE {}
    /\ roomStatus = [r \in Rooms |-> "AVAILABLE"]
    /\ bedOcc = [b \in Beds |-> NULL]
    /\ allocations = {}
    /\ auditLogs = {}
    /\ notifications = {}
    /\ errLog = {}
    /\ NoInvocation
    /\ faults = MaxFaults
    /\ arg = [p \in Procs |-> NoArg]
    /\ calls = 0
    /\ req = [p \in Assigners |-> NoReq]
    /\ createdApps = {}
    /\ pc = [p \in Procs |-> IF p = "r1" THEN "idle" ELSE "off"]

NextFault ==
    \/ Select("r1")
    \/ RunnerStep("r1")
    \/ AllocateBedStep("r1")
    \/ AddToWaitlistStep("r1")
    \/ RunnerFault("r1")
    \/ ResetFail("r1")
    \/ AllocateBedFault("r1")

SpecFault == InitFault /\ [][NextFault]_vars

\* ------------------------------------------------------------ SpecRace
\* Two direct allocateBed calls, for applications 1 and 2, racing for the one
\* free bed both are eligible for; no store errors.  The callers pass the
\* application with or without its student record.
OneFreeBedForBoth ==
    \E b \in Beds :
        \A a \in {1, 2} :
            {c \in Beds : /\ bedOcc[c] = NULL
                          /\ roomStatus[RoomOf(c)] = "AVAILABLE"
                          /\ \/ Len(appInfo[a].preferredHostels) = 0
                             \/ HostelOf(RoomOf(c)) \in Range(appInfo[a].preferredHostels)}
              = {b}

InitRace ==
    /\ appInfo \in {[a \in Apps |-> Application(a, prefs[a], "NONE", a)] :
                        prefs \in PreferencePatterns}
    /\ appStatus = [a \in Apps |-> "PENDING"]
    /\ roomStatus \in [Rooms -> {"AVAILABLE", "MAINTENANCE"}]
    /\ FreshStore
    /\ OneFreeBedForBoth
    /\ NoInvocation
    /\ faults = 0
    /\ arg \in {[p \in Procs |->
                    CASE p = "c1" -> [id |-> 1, status |-> "PENDING", hasStudent |-> h1,
                                     preferredHostels |-> appInfo[1].preferredHostels,
                                     roomType |-> NULL]
                      [] p = "c2" -> [id |-> 2, status |-> "PENDING", hasStudent |-> h2,
                                      preferredHostels |-> appInfo[2].preferredHostels,
                                      roomType |-> NULL]
                      [] OTHER -> NoArg] :
                    h1 \in BOOLEAN, h2 \in BOOLEAN}
    /\ calls = 0
    /\ req = [p \in Assigners |-> NoReq]
    /\ createdApps = {}
    /\ pc = [p \in Procs |-> IF p \in Callers THEN "ab_find" ELSE "off"]

NextRace == \E p \in Callers : AllocateBedStep(p)

SpecRace == InitRace /\ [][NextRace]_vars


\* ---------------------------------------------------------- SpecWorker
\* One runAllocation without store errors, started by an administrator
\* (POST /run) or by the scheduled worker, whose allocatedBy is the string
\* 'system' when no SYSTEM_USER_ID is configured.
InitWorker ==
    /\ appInfo \in {[a \in Apps |-> Application(a, prefs[a], "NONE", a)] :
                        prefs \in PreferencePatterns}
    /\ appStatus \in {[a \in Apps |-> IF a < MaxApps THEN "PENDING" ELSE st] :
                        st \in {"PENDING", "REJECTED"}}
    /\ roomStatus \in {[r \in Rooms |-> "AVAILABLE"],
                       [r \in Rooms |-> IF r = 1 THEN "AVAILABLE" ELSE "MAINTENANCE"]}
    /\ FreshStore
    /\ queue = [p \in Procs |-> <<>>]
    /\ idx = [p \in Procs |-> 0]
    /\ stats = [p \in Procs |-> NoStats]
    /\ tx = [p \in Procs |-> NoTx]
    /\ newRank = [p \in Procs |-> 0]
    /\ result = [p \in Procs |-> "none"]
    /\ actor \in {[p \in Procs |-> who] : who \in {"admin", "system"}}
    /\ faults = 0
    /\ arg = [p \in Procs |-> NoArg]
    /\ calls = 0
    /\ req = [p \in Assigners |-> NoReq]
    /\ createdApps = {}
    /\ pc = [p \in Procs |-> IF p = "r1" THEN "idle" ELSE "off"]

NextWorker ==
    \/ Select("r1")
    \/ RunnerStep("r1")
    \/ AllocateBedStep("r1")
    \/ AddToWaitlistStep("r1")

SpecWorker == InitWorker /\ [][NextWorker]_vars

\* -------------------------------------------------------- SpecWaitlist
\* addToWaitlist as the module exports it: one caller makes up to MaxCalls
\* calls, one after the other, each with an application object of its choice
\* that includes the student (the preferences and the room type are read from
\* the object passed, not from the store).
CallerPreferences == {<<>>, <<1>>, <<2>>}
\* preferences.roomType || null: no room type, or a stated one (numbered 1).
RoomTypes == {NULL, 1}

CallAddToWaitlist(p) ==
    /\ pc[p] \in {"c_idle", "c_done"}
    /\ calls < MaxCalls
    /\ \E a \in Apps : \E pref \in CallerPreferences : \E rt \in RoomTypes :
          arg' = [arg EXCEPT ![p] = [id |-> a, status |-> appStatus[a],
                                    hasStudent |-> TRUE,
                                    preferredHostels |-> pref, roomType |-> rt]]
    /\ calls' = calls + 1
    /\ pc' = [pc EXCEPT ![p] = "wl_max"]
    /\ result' = [result EXCEPT ![p] = "none"]
    /\ UNCHANGED <<storeVars, appInfo, actor, req, createdApps, notifications, errLog,
                   faults, runVars, tx, newRank>>

InitWaitlist ==
    /\ appInfo = [a \in Apps |-> Application(a, <<>>, "NONE", a)]
    /\ appStatus = [a \in Apps |-> "PENDING"]
    /\ roomStatus = [r \in Rooms |-> "AVAILABLE"]
    /\ FreshStore
    /\ NoInvocation
    /\ faults = 0
    /\ arg = [p \in Procs |-> NoArg]
    /\ calls = 0
    /\ req = [p \in Assigners |-> NoReq]
    /\ createdApps = {}
    /\ pc = [p \in Procs |-> IF p = "c1" THEN "c_idle" ELSE "off"]

NextWaitlist ==
    \/ CallAddToWaitlist("c1")
    \/ AddToWaitlistStep("c1")

SpecWaitlist == InitWaitlist /\ [][NextWaitlist]_vars

\* ---------------------------------------------------------- SpecAssign
\* Two manual assignment requests and one direct allocateBed call (for the
\* last application, which states no preferred hostel) run concurrently
\* without store errors; the first application is PENDING, or WAITLISTED
\* with rank 1 from an earlier run.
InitAssign ==
    /\ appInfo = [a \in Apps |-> Application(a, <<>>, "NONE", a)]
    /\ \E st \in {"PENDING", "WAITLISTED"} :
          /\ appStatus = [a \in Apps |-> IF a = 1 THEN st ELSE "PENDING"]
          /\ waitlist = IF st = "WAITLISTED"
                        THEN {[applicationId |-> 1, rank |-> 1, hostelId |-> BucketOf(1),
                               roomType |-> NULL]}
                        ELSE {}
    /\ roomStatus = [r \in Rooms |-> "AVAILABLE"]
    /\ bedOcc = [b \in Beds |-> NULL]
    /\ allocations = {}
    /\ auditLogs = {}
    /\ notifications = {}
    /\ errLog = {}
    /\ NoInvocation
    /\ faults = 0
    /\ arg = [p \in Procs |-> [NoArg EXCEPT !.id = MaxApps]]
    /\ calls = 0
    /\ req = [p \in Assigners |-> NoReq]
    /\ createdApps = {}
    /\ pc = [p \in Procs |-> CASE p \in Assigners -> "ma_idle"
                               [] p = "c1" -> "ab_find"
                               [] OTHER -> "off"]

NextAssign ==
    \/ \E p \in Assigners : ManualAssignStep(p)
    \/ AllocateBedStep("c1")

SpecAssign == InitAssign /\ [][NextAssign]_vars

\* ----------------------------------------------------------- SpecStall
\* The two racing allocateBed calls of SpecRace, where the first call may
\* stall for ever at any statement, also while it holds a bed lock, and the
\* second keeps taking steps whenever it can.
SpecStall == InitRace /\ [][NextRace]_vars /\ WF_vars(AllocateBedStep("c2"))

\* --------------------------------------------------------- SpecCascade
\* One runAllocation invocation, no store error, while an administrator
\* deletes students whose applications the run has selected and not yet
\* reached.
InitCascade ==
    /\ appInfo \in {[a \in Apps |-> Application(a, prefs[a], "NONE", a)] :
                        prefs \in PreferencePatterns}
    /\ appStatus \in {[a \in Apps |-> IF a < MaxApps THEN "PENDING" ELSE st] :
                        st \in {"PENDING", "REJECTED"}}
    /\ roomStatus = [r \in Rooms |-> "AVAILABLE"]
    /\ FreshStore
    /\ NoInvocation
    /\ faults = 0
    /\ arg = [p \in Procs |-> NoArg]
    /\ calls = 0
    /\ req = [p \in Assigners |-> NoReq]
    /\ createdApps = {}
    /\ pc = [p \in Procs |-> IF p = "r1" THEN "idle" ELSE "off"]

NextCascade ==
    \/ Select("r1")
    \/ RunnerStep("r1")
    \/ AllocateBedStep("r1")
    \/ AddToWaitlistStep("r1")
    \/ MarkMissing("r1")
    \/ ResetMissing("r1")
    \/ \E a \in Apps : DeleteUser(a)

SpecCascade == InitCascade /\ [][NextCascade]_vars

\* ---------------------------------------------------------- SpecSubmit
\* Two submissions from sessions of student 1, in any interleaving. The
\* student has no application yet, or one application in any status (with
\* its waitlist entry or its allocation); application 2 is another
\* student's pending application; the other rows do not exist yet.
PriorStates == {NoRow} \cup ApplicationStatus

InitSubmit ==
    /\ \E st \in PriorStates :
          /\ appStatus = [a \in Apps |-> CASE a = 1 -> st
                                           [] a = 2 -> "PENDING"
                                           [] OTHER -> NoRow]
          /\ waitlist = IF st = "WAITLISTED"
                        THEN {[applicationId |-> 1, rank |-> 1, hostelId |-> NULL,
                               roomType |-> NULL]}
                        ELSE {}
          /\ allocations = IF st = "ALLOCATED"
                           THEN {[id |-> <<"r1", 1>>, applicationId |-> 1, studentId |-> 1,
                                  roomId |-> RoomOf(1), bedId |-> 1, allocatedBy |-> "admin"]}
                           ELSE {}
          /\ bedOcc = [b \in Beds |-> IF st = "ALLOCATED" /\ b = 1 THEN 1 ELSE NULL]
    /\ appInfo = [a \in Apps |-> Application(a, <<>>, "NONE", a)]
    /\ roomStatus = [r \in Rooms |-> "AVAILABLE"]
    /\ auditLogs = {}
    /\ notifications = {}
    /\ errLog = {}
    /\ NoInvocation
    /\ faults = 0
    /\ arg = [p \in Procs |-> NoArg]
    /\ calls = 0
    /\ req = [p \in Assigners |-> NoReq]
    /\ createdApps = {}
    /\ pc = [p \in Procs |-> IF p \in Submitters THEN "sb_idle" ELSE "off"]

NextSubmit == \E p \in Submitters : SubmitStep(p)

SpecSubmit == InitSubmit /\ [][NextSubmit]_vars

\* ------------------------------------------------------------ SpecScan
\* A hostel with one bed more than a candidate list holds, all free and in
\* AVAILABLE rooms, and as many applications without hostel preference.
\* Caller c1 makes up to CandidateLimit allocateBed calls one after the
\* other, for applications 1, 2, ...; caller c2 makes one call for the last
\* application, interleaved with them in any way.
ManyBeds == CandidateLimit + 1

CallAllocateBed(p) ==
    /\ pc[p] \in {"c_idle", "c_done"}
    /\ calls < CandidateLimit
    /\ arg' = [arg EXCEPT ![p] = [NoArg EXCEPT !.id = calls + 1]]
    /\ calls' = calls + 1
    /\ pc' = [pc EXCEPT ![p] = "ab_find"]
    /\ result' = [result EXCEPT ![p] = "none"]
    /\ UNCHANGED <<storeVars, appInfo, actor, req, createdApps, notifications, errLog,
                   faults, runVars, tx, newRank>>

InitScan ==
    /\ appInfo = [a \in 1..ManyBeds |-> Application(a, <<>>, "NONE", a)]
    /\ appStatus = [a \in 1..ManyBeds |-> "PENDING"]
    /\ roomStatus = [r \in 1..ManyBeds |-> "AVAILABLE"]
    /\ bedOcc = [b \in 1..ManyBeds |-> NULL]
    /\ allocations = {}
    /\ waitlist = {}
    /\ auditLogs = {}
    /\ notifications = {}
    /\ errLog = {}
    /\ NoInvocation
    /\ faults = 0
    /\ arg = [p \in Procs |-> IF p = "c2" THEN [NoArg EXCEPT !.id = ManyBeds] ELSE NoArg]
    /\ calls = 0
    /\ req = [p \in Assigners |-> NoReq]
    /\ createdApps = {}
    /\ pc = [p \in Procs |-> CASE p = "c1" -> "c_idle"
                               [] p = "c2" -> "ab_find"
                               [] OTHER -> "off"]

NextScan ==
    \/ CallAllocateBed("c1")
    \/ AllocateBedStep("c1")
    \/ AllocateBedStep("c2")

SpecScan == InitScan /\ [][NextScan]_vars

\* ================================================================ claims
AllocationsOfBed(b) == {al \in allocations : al.bedId = b}
AllocationsOfApp(a) == {al \in allocations : al.applicationId = a}
EntriesOfApp(a) == {w \in waitlist : w.applicationId = a}
Ended(p) == pc[p] \in {"done", "thrown"}
QueueIds(p) == {queue[p][i].id : i \in 1..Len(queue[p])}

\* C1: under any interleaving of the concurrent runs and their allocateBed
\* transactions, every bed is referenced by at most one Allocation, and the
\* bed's occupiedBy is that Allocation's studentId.
C1_AtMostOneOccupancy ==
    \A b \in Beds :
        /\ Cardinality(AllocationsOfBed(b)) <= 1
        /\ \A al \in AllocationsOfBed(b) : bedOcc[b] = al.studentId

\* C1 witness: a bed is bound to an Allocation while another transaction
\* still has that bed as the candidate it is about to lock.
C1_Witness ==
    \E al \in allocations : \E p \in Procs :
        /\ pc[p] = "ab_lock"
        /\ tx[p].cands[tx[p].ci] = al.bedId

\* C2: two concurrent allocateBed calls for different applications and one
\* free eligible bed return exactly one true and one false.
C2_ExactlyOneSuccess ==
    (pc["c1"] = "c_done" /\ pc["c2"] = "c_done")
        => Cardinality({p \in Callers : result[p] = "true"}) = 1

\* C2 witness: both calls have returned and the bed is bound.
C2_Witness ==
    /\ pc["c1"] = "c_done" /\ pc["c2"] = "c_done"
    /\ allocations # {}

\* C3: under any interleaving of concurrent runs every application has at most
\* one Allocation.
C3_OneAllocationPerApplication ==
    \A a \in Apps : Cardinality(AllocationsOfApp(a)) <= 1

\* C4: no application has an Allocation and a WaitlistEntry at the same time.
C4_AllocationExcludesWaitlist ==
    \A a \in Apps : AllocationsOfApp(a) = {} \/ EntriesOfApp(a) = {}

\* C5: a single-threaded run processes every application with a priority
\* category before every application without one, and applications without a
\* category in appliedAt order.
C5_PriorityThenFcfs ==
    \A i \in 1..Len(queue["r1"]) : \A j \in 1..Len(queue["r1"]) :
        LET x == appInfo[queue["r1"][i].id]
            y == appInfo[queue["r1"][j].id]
        IN  /\ (x.priorityCategory # "NONE" /\ y.priorityCategory = "NONE") => i < j
            /\ (x.priorityCategory = "NONE" /\ y.priorityCategory = "NONE"
                    /\ x.appliedAt < y.appliedAt) => i < j

\* C6: one AVAILABLE room with one free bed in hostel 1, and two PENDING
\* applications preferring hostel 1, R_A with a priority category and applied
\* later, R_B without one and applied earlier: after one run R_A is ALLOCATED
\* to the bed and R_B is WAITLISTED with rank 1.
C6_Scenario(ra, rb) ==
    /\ pc["r1"] = "done" /\ pc["r2"] = "idle"
    /\ QueueIds("r1") = {ra, rb} /\ ra # rb
    /\ appInfo[ra].priorityCategory # "NONE"
    /\ appInfo[rb].priorityCategory = "NONE"
    /\ appInfo[rb].appliedAt < appInfo[ra].appliedAt
    /\ appInfo[ra].preferredHostels = <<1>>
    /\ appInfo[rb].preferredHostels = <<1>>
    /\ {r \in Rooms : roomStatus[r] = "AVAILABLE"} = {1}

C6_PriorityGetsTheBed ==
    \A ra \in Apps : \A rb \in Apps :
        C6_Scenario(ra, rb) =>
            /\ appStatus[ra] = "ALLOCATED"
            /\ \E al \in allocations : al.applicationId = ra /\ al.bedId = 1
            /\ appStatus[rb] = "WAITLISTED"
            /\ \E w \in waitlist : w.applicationId = rb /\ w.rank = 1

\* C6 witness: the scenario has been run.
C6_Witness == \E ra \in Apps : \E rb \in Apps : C6_Scenario(ra, rb)


\* Applications whose processing logged a store error, and those the run has
\* finished with.
TxFailed(p) == {l.app : l \in {m \in errLog : m.proc = p /\ m.kind = "Transaction error"}}
ProcessingFailed(p) ==
    {l.app : l \in {m \in errLog : m.proc = p /\ m.kind = "Error processing application"}}
Processed(p) == {queue[p][i].id : i \in 1..Min(idx[p] - 1, Len(queue[p]))}
EndedAfterSelect(p) == Ended(p) /\ idx[p] > 0

\* C7: a store error while one application is processed does not end the run:
\* every selected application is processed, errors counts exactly the failed
\* applications, the failed ones are back at their pre-run status and the
\* others are counted as allocated or waitlisted.
C7_PartialFailureIsolation ==
    EndedAfterSelect("r1") =>
        LET failed == TxFailed("r1") \cup ProcessingFailed("r1")
            rest == QueueIds("r1") \ failed
        IN  /\ pc["r1"] = "done"
            /\ Processed("r1") = QueueIds("r1")
            /\ stats["r1"].errors = Cardinality(failed)
            /\ \A i \in 1..Len(queue["r1"]) :
                  queue["r1"][i].id \in failed
                      => appStatus[queue["r1"][i].id] = queue["r1"][i].status
            /\ stats["r1"].allocated =
                  Cardinality({a \in rest : appStatus[a] = "ALLOCATED"})
            /\ stats["r1"].waitlisted =
                  Cardinality({a \in rest : appStatus[a] = "WAITLISTED"})

\* C8: when a run ends, by returning or by throwing, every application it
\* selected is ALLOCATED, WAITLISTED or at its pre-run status.
C8_NeverLeftInProgress ==
    Ended("r1") =>
        \A i \in 1..Len(queue["r1"]) :
            appStatus[queue["r1"][i].id] \in {"ALLOCATED", "WAITLISTED", queue["r1"][i].status}

\* C9: once the first of two successive runs has returned, no Allocation and
\* no WaitlistEntry changes, and the second run counts nothing as allocated or
\* waitlisted.
C9_IdempotentRerun ==
    [][pc["r1"] = "done" =>
          /\ allocations' = allocations
          /\ waitlist' = waitlist
          /\ stats'["r2"].allocated = 0
          /\ stats'["r2"].waitlisted = 0]_vars

CommittedBy(p) == {al \in allocations : al.id[1] = p}

\* C11: allocateBed returns true exactly when its transaction committed with
\* a bed bound to the application; a failure of the notification step after
\* the commit (the application passed without its student record) does not
\* turn the result into false and leaves the Allocation in place.
C11_TrueIffCommitted ==
    \A p \in Callers :
        pc[p] = "c_done" =>
            /\ result[p] = "true" <=> CommittedBy(p) # {}
            /\ \A al \in CommittedBy(p) : bedOcc[al.bedId] = al.studentId

\* C11 witness: a call returned after committing for an application that was
\* passed without its student record.
C11_Witness ==
    \E p \in Callers :
        /\ pc[p] = "c_done"
        /\ CommittedBy(p) # {}
        /\ ~arg[p].hasStudent

\* C12: a failure to write the audit record of an allocation (the allocator
\* identity is not a stored user) does not change the outcome: the bed is
\* bound to the student, the Allocation exists, the application is ALLOCATED
\* and the call counted as a success.
C12_AuditFailureKeepsAllocation ==
    \A a \in Processed("r1") :
        (a \in TxFailed("r1") /\ ~ActorIsUser("r1")) =>
            /\ appStatus[a] = "ALLOCATED"
            /\ AllocationsOfApp(a) # {}
            /\ \E b \in Beds : bedOcc[b] = StudentOf(a)
            /\ stats["r1"].allocated > 0

\* C12 witness: the scheduled run is through with an application whose audit
\* record could not be written.
C12_Witness ==
    \E a \in Processed("r1") : a \in TxFailed("r1") /\ ~ActorIsUser("r1")

\* C13: a failed allocateBed transaction leaves no trace.  The committed
\* store never shows an occupied bed without its Allocation or an Allocation
\* without its occupied bed and audit record; and right after a transaction
\* of the run failed, the application has no Allocation, no bed and no audit
\* record, its status is the one written before the transaction began, and
\* its WaitlistEntry is the one it had before.
C13_RollbackLeavesNoTrace ==
    /\ \A b \in Beds : bedOcc[b] # NULL <=> AllocationsOfBed(b) # {}
    /\ \A al \in allocations :
          /\ bedOcc[al.bedId] = al.studentId
          /\ \E l \in auditLogs : l.action = "ALLOCATE" /\ l.targetId = al.id
    /\ \A l \in auditLogs :
          l.action = "ALLOCATE" => \E al \in allocations : al.id = l.targetId
    /\ (pc["r1"] = "wl_max" /\ CurApp("r1").id \in TxFailed("r1")) =>
          LET a == CurApp("r1").id
          IN  /\ AllocationsOfApp(a) = {}
              /\ \A b \in Beds : bedOcc[b] # StudentOf(a)
              /\ appStatus[a] = "IN_PROGRESS"
              /\ EntriesOfApp(a) # {} <=> CurApp("r1").status = "WAITLISTED"
              /\ \A w \in EntriesOfApp(a) : w.rank = 1

\* C13 witness: the transaction for an application that came with a
\* WaitlistEntry has just failed although a bed was free for it.
C13_Witness ==
    /\ pc["r1"] = "wl_max"
    /\ CurApp("r1").id \in TxFailed("r1")
    /\ CurApp("r1").status = "WAITLISTED"
    /\ Eligible("r1") # {}

\* The entries of one scope bucket: those stored with the given hostel, or
\* with no hostel for the unscoped bucket.
ScopeBucket(h) == {w \in waitlist : w.hostelId = h}

\* C14: in single-threaded runs, the rank addToWaitlist is about to store is
\* greater than the rank of every entry of the application's scope bucket,
\* and it is 1 when that bucket is empty.
C14_MonotoneRanks ==
    \A p \in Runners :
        pc[p] = "wl_upsert" =>
            /\ \A w \in ScopeBucket(HostelIdOf(p)) : w.rank < newRank[p]
            /\ ScopeBucket(HostelIdOf(p)) = {} => newRank[p] = 1

\* C14 witness: a rank was computed for an application whose own bucket is
\* empty while another bucket has an entry.
C14_Witness ==
    \E p \in Runners :
        /\ pc[p] = "wl_upsert"
        /\ ScopeBucket(HostelIdOf(p)) = {}
        /\ waitlist # {}

\* C17: two applications that both have a priority category, whichever the
\* categories, are processed by a single-threaded run in appliedAt order.
C17_FcfsWithinPriorityTier ==
    \A i \in 1..Len(queue["r1"]) : \A j \in 1..Len(queue["r1"]) :
        LET x == appInfo[queue["r1"][i].id]
            y == appInfo[queue["r1"][j].id]
        IN  (x.priorityCategory # "NONE" /\ y.priorityCategory # "NONE"
                /\ x.appliedAt < y.appliedAt) => i < j

\* C17 witness: the run selected a HANDICAPPED application submitted before
\* a MERIT application.
C17_Witness ==
    \E i \in 1..Len(queue["r1"]) : \E j \in 1..Len(queue["r1"]) :
        /\ appInfo[queue["r1"][i].id].priorityCategory = "HANDICAPPED"
        /\ appInfo[queue["r1"][j].id].priorityCategory = "MERIT"
        /\ appInfo[queue["r1"][i].id].appliedAt < appInfo[queue["r1"][j].id].appliedAt

\* C18: the rank addToWaitlist computes is one more than the largest rank of
\* the application's own scope bucket, or 1 if that bucket is empty; for an
\* application without a preferred hostel the bucket is the set of entries
\* without a hostel, whatever the hostel-scoped buckets hold.
C18_RankFromOwnBucket ==
    \A p \in Runners :
        pc[p] = "wl_upsert" =>
            newRank[p] = IF ScopeBucket(HostelIdOf(p)) = {} THEN 1
                         ELSE MaxRank(ScopeBucket(HostelIdOf(p))) + 1

\* C18 witness: a rank was computed for an application without a preferred
\* hostel while a hostel-scoped entry exists.
C18_Witness ==
    \E p \in Runners :
        /\ pc[p] = "wl_upsert"
        /\ HostelIdOf(p) = NULL
        /\ \E w \in waitlist : w.hostelId # NULL

\* C19: an application never has more than one WaitlistEntry; every
\* addToWaitlist call leaves exactly one entry for its application, holding
\* the rank just computed; and an entry, once created, keeps its hostelId
\* and roomType through every later call.
C19_OneEntryRankOnly ==
    /\ [](\A a \in Apps : Cardinality(EntriesOfApp(a)) <= 1)
    /\ [][/\ \A a \in Apps : \A w \in EntriesOfApp(a) :
                \E v \in EntriesOfApp(a)' :
                    v.hostelId = w.hostelId /\ v.roomType = w.roomType
          /\ (pc["c1"] = "wl_upsert" /\ pc'["c1"] = "wl_status") =>
                /\ Cardinality(EntriesOfApp(CurApp("c1").id)') = 1
                /\ \A v \in EntriesOfApp(CurApp("c1").id)' : v.rank = newRank["c1"]
                /\ \A a \in Apps \ {CurApp("c1").id} :
                      EntriesOfApp(a)' = EntriesOfApp(a)]_vars

\* C19 witness: a repeated call, made with another first preferred hostel
\* than the one the entry was created with, has stored its rank.
C19_Witness ==
    /\ pc["c1"] = "wl_status"
    /\ \E w \in EntriesOfApp(CurApp("c1").id) :
          /\ w.hostelId # HostelIdOf("c1")
          /\ w.roomType # RoomTypeOf("c1")
          /\ w.rank = newRank["c1"]

\* No two entries of one scope bucket hold the same rank.
NoDuplicateRank ==
    \A w \in waitlist : \A v \in waitlist :
        (w.applicationId # v.applicationId /\ w.hostelId = v.hostelId)
            => w.rank # v.rank

\* C20: an addToWaitlist call that stores the rank it would compute from the
\* store as it is now (no other call changed the waitlist between its read
\* and its write, as in sequential calls) never creates a duplicate rank in
\* a scope bucket; duplicates arise only from concurrent calls storing a
\* rank read before the other's write.
C20_DuplicateRankNeedsRace ==
    [][\A p \in Runners :
          (/\ pc[p] = "wl_upsert" /\ pc'[p] = "wl_status"
           /\ newRank[p] = NewRank(p)
           /\ NoDuplicateRank) => NoDuplicateRank']_vars

\* C20 witness: two concurrent calls for different applications of one
\* bucket stored the same rank.
C20_Witness ==
    \E w \in waitlist : \E v \in waitlist :
        /\ w.applicationId # v.applicationId
        /\ w.hostelId = v.hostelId
        /\ w.rank = v.rank

\* The invocations that committed an Allocation for the bed.
CommittersOf(b) == {p \in Procs : \E al \in CommittedBy(p) : al.bedId = b}

\* C15: when manual assignments and an allocateBed call run concurrently,
\* at most one of them commits for any one bed, and a bed has at most one
\* Allocation, whose student is its occupant.
C15_ManualAssignRespectsLock ==
    \A b \in Beds :
        /\ Cardinality(CommittersOf(b)) <= 1
        /\ Cardinality(AllocationsOfBed(b)) <= 1
        /\ \A al \in AllocationsOfBed(b) : bedOcc[b] = al.studentId

\* C15 witness: a manual assignment and allocateBed both committed for the
\* same bed.
C15_Witness ==
    \E b \in Beds : \E p \in Assigners :
        {p, "c1"} \subseteq CommittersOf(b)

\* C16: after a manual assignment answered 201 for a student whose
\* application was found PENDING or WAITLISTED, that application is
\* ALLOCATED and has no WaitlistEntry.
C16_ManualAssignClearsWaitlist ==
    \A p \in Assigners :
        (pc[p] = "ma_done" /\ result[p] = "201" /\ req[p].app \in Apps) =>
            /\ appStatus[req[p].app] = "ALLOCATED"
            /\ EntriesOfApp(req[p].app) = {}

\* C16 witness: a manual assignment committed for the student of the
\* application that was WAITLISTED.
C16_Witness ==
    \E p \in Assigners :
        /\ pc[p] = "ma_done" /\ result[p] = "201"
        /\ req[p].app = 1
        /\ EntriesOfApp(1) # {}

\* The status changes the state diagram of an application allows.
AllowedStatusChange(from, to) ==
    \/ from \in {"PENDING", "WAITLISTED"} /\ to = "IN_PROGRESS"
    \/ from = "IN_PROGRESS" /\ to \in {"ALLOCATED", "WAITLISTED", "PENDING"}

\* C21: under any interleaving of concurrent runs, the status of an
\* application changes only along PENDING -> IN_PROGRESS ->
\* {ALLOCATED, WAITLISTED, PENDING} and WAITLISTED -> IN_PROGRESS ->
\* {ALLOCATED, WAITLISTED}; an ALLOCATED application keeps its status.
C21_StatusPathsOnly ==
    [][\A a \in Apps :
          appStatus'[a] # appStatus[a] => AllowedStatusChange(appStatus[a], appStatus'[a])]_vars

\* C21 witness: an application is ALLOCATED while a run that selected it
\* earlier is about to mark it IN_PROGRESS.
C21_Witness ==
    \E p \in Runners :
        /\ pc[p] = "r_mark"
        /\ appStatus[CurApp(p).id] = "ALLOCATED"

Ascending(s) == \A i \in 1..(Len(s) - 1) : s[i] < s[i + 1]

\* C23: the candidate list is in ascending bed id and starts with the
\* eligible free bed of smallest id; the scan takes the candidates one by
\* one in that order: a lock attempt on a free, unlocked candidate that meets
\* no store error binds that candidate, any other attempt moves to the next
\* candidate or ends the scan, and the bed held is the candidate last tried.
C23_ScanInIdOrder ==
    /\ [](\A p \in Runners :
            /\ Ascending(tx[p].cands)
            /\ tx[p].locked # NULL => tx[p].locked = tx[p].cands[tx[p].ci])
    /\ [][\A p \in Runners :
            /\ (pc[p] = "ab_find" /\ pc'[p] = "ab_lock") =>
                  /\ tx'[p].ci = 1
                  /\ Range(tx'[p].cands) \subseteq Eligible(p)
                  /\ \A b \in Eligible(p) : tx'[p].cands[1] <= b
            /\ (pc[p] = "ab_lock" /\ tx'[p] # tx[p]) =>
                  LET cur == tx[p].cands[tx[p].ci]
                  IN  IF tx'[p].locked # NULL
                      THEN /\ tx'[p].locked = cur
                           /\ bedOcc[cur] = NULL /\ ~BedLocked(cur, p)
                      ELSE /\ \/ tx'[p].ci = tx[p].ci + 1
                              \/ tx'[p] = NoTx /\ tx[p].ci = Len(tx[p].cands)
                           /\ \/ faults' # faults
                              \/ tx[p].aborted
                              \/ bedOcc[cur] # NULL
                              \/ BedLocked(cur, p)]_vars

\* C23 witness: under contention a call holds its second candidate, the
\* first being locked by the other run.
C23_Witness ==
    \E p \in Runners :
        /\ tx[p].locked # NULL
        /\ tx[p].ci = 2
        /\ BedLocked(tx[p].cands[1], p)

\* C24: a lock attempt never waits, so a call for another application
\* finishes whatever the first call does, also when the first call stalls
\* while it holds the lock of the bed both want.
C24_StalledLockHolderDoesNotBlock == <>(pc["c2"] = "c_done")

\* C24 witness: the second call has returned while the first still holds
\* the lock of the one bed both are eligible for.
C24_Witness ==
    /\ pc["c2"] = "c_done"
    /\ tx["c1"].locked # NULL
    /\ tx["c1"].locked \in Eligible("c2")

\* C25: no step of runAllocation, allocateBed or addToWaitlist changes a
\* room; a room whose beds are all occupied keeps the status it had.
C25_RoomsAreReadOnly == [][roomStatus' = roomStatus]_vars

\* C25 witness: every bed of a room has been allocated and the room is
\* still AVAILABLE.
C25_Witness ==
    \E r \in Rooms :
        /\ roomStatus[r] = "AVAILABLE"
        /\ \A b \in Beds : RoomOf(b) = r => AllocationsOfBed(b) # {}

\* C26: a call that finds no eligible free bed returns at once, and a call
\* that returns from the candidate read or from the lock loop, having bound
\* no bed, returns false and changes no bed, application status, Allocation,
\* WaitlistEntry or audit record, and sends no notification.
C26_NoBedNoEffect ==
    [][\A p \in Callers :
          /\ (pc[p] = "ab_find" /\ Eligible(p) = {} /\ pc'[p] # pc[p]) => pc'[p] = "c_done"
          /\ (pc[p] \in {"ab_find", "ab_lock"} /\ pc'[p] = "c_done") =>
                /\ result'[p] = "false"
                /\ storeVars' = storeVars
                /\ notifications' = notifications
                /\ CommittedBy(p) = {}]_vars

\* C26 witness: a call has returned false with no bed bound, the only
\* eligible bed being locked or occupied by the other call.
C26_Witness ==
    \E p \in Callers :
        /\ pc[p] = "c_done" /\ result[p] = "false"
        /\ CommittedBy(p) = {}
        /\ \A b \in Beds : bedOcc[b] # StudentOf(arg[p].id)

\* The batch-level audit records of a run.
BatchRecords(p) ==
    {l \in auditLogs : l.action = "CREATE" /\ l.targetId = <<p, NULL>>}

\* C27: a run has no batch record before it returns; when it returns every
\* selected application has been processed, there is at most one batch
\* record and it carries the stats returned; the write of the record, if it
\* does not fail, stores exactly one record, and if it fails the run still
\* returns its stats.
C27_OneBatchAuditRecord ==
    /\ [](pc["r1"] # "done" => BatchRecords("r1") = {})
    /\ [](pc["r1"] = "done" =>
            /\ result["r1"] = "stats"
            /\ Processed("r1") = QueueIds("r1")
            /\ Cardinality(BatchRecords("r1")) <= 1
            /\ \A l \in BatchRecords("r1") : l.details = stats["r1"])
    /\ [][(pc["r1"] = "r_audit" /\ pc'["r1"] # "r_audit") =>
            /\ pc'["r1"] = "done"
            /\ (faults' = faults /\ ActorIsUser("r1")) =>
                  Cardinality(BatchRecords("r1")') = 1]_vars

\* C27 witness: a run that allocated or waitlisted something has returned
\* without a batch record, the write of the record having failed.
C27_Witness ==
    /\ pc["r1"] = "done"
    /\ BatchRecords("r1") = {}
    /\ stats["r1"].allocated + stats["r1"].waitlisted > 0

\* C28: a run enters allocateBed for an application only by the step that
\* writes IN_PROGRESS to the store, with no transaction open before or after
\* that step; a run's selection leaves out every application that is
\* IN_PROGRESS at that moment, and the run works on nothing but its
\* selection, which never changes afterwards.
C28_InProgressBarrier ==
    [][\A p \in Runners :
          /\ (pc[p] # "ab_find" /\ pc'[p] = "ab_find") =>
                /\ pc[p] = "r_mark"
                /\ tx[p] = NoTx /\ tx'[p] = NoTx
                /\ appStatus'[queue[p][idx[p]].id] = "IN_PROGRESS"
                /\ idx'[p] = idx[p]
          /\ (pc[p] = "idle" /\ pc'[p] \in {"r_mark", "r_audit"}) =>
                \A a \in Apps : appStatus[a] = "IN_PROGRESS" => a \notin QueueIds(p)'
          /\ pc[p] # "idle" => queue'[p] = queue[p]
          /\ pc'[p] \in {"r_mark", "ab_find", "ab_lock"} =>
                idx'[p] \in 1..Len(queue'[p])]_vars

\* C28 witness: r1 is inside allocateBed for its first application, which
\* is IN_PROGRESS, and r2 has selected a non-empty set without it.
C28_Witness ==
    /\ pc["r1"] \in {"ab_find", "ab_lock"} /\ idx["r1"] = 1
    /\ appStatus[queue["r1"][1].id] = "IN_PROGRESS"
    /\ pc["r2"] = "r_mark" /\ idx["r2"] = 1
    /\ queue["r1"][1].id \notin QueueIds("r2")

\* The selected applications of a run whose rows are gone.
Disappeared(p) == {a \in QueueIds(p) : RowMissing(a)}

\* C29: a run whose selected applications disappear before their turn still
\* returns its stats, having gone through every selected application, with
\* at most one error counted for each application that disappeared.
C29_ToleratesCascadeDeletion ==
    /\ pc["r1"] # "thrown"
    /\ stats["r1"].errors <= Cardinality(Disappeared("r1"))
    /\ pc["r1"] = "done" =>
          /\ result["r1"] = "stats"
          /\ Processed("r1") = QueueIds("r1")

\* C29 witness: the run has ended by rethrowing after one error, an
\* application of its selection having disappeared, with applications left
\* unprocessed.
C29_Witness ==
    /\ pc["r1"] = "thrown"
    /\ stats["r1"].errors = 1
    /\ Disappeared("r1") # {}
    /\ Processed("r1") # QueueIds("r1")

\* C30: no student ever has more than one non-terminal application, and a
\* submission is answered 201 only when, at that moment, the student has no
\* non-terminal application and no allocation.
C30_OneActiveApplicationPerStudent ==
    /\ [](\A s \in Students : Cardinality(ActiveApplications(s)) <= 1)
    /\ [][\A p \in Submitters :
            (pc[p] # "sb_done" /\ pc'[p] = "sb_done" /\ result'[p] = "201") =>
                /\ ActiveApplications(SessionUser(p)) = {}
                /\ \A al \in allocations : al.studentId # SessionUser(p)]_vars

\* C30 witness: both submissions have been answered 201 and the student
\* holds two PENDING applications.
C30_Witness ==
    /\ \A p \in Submitters : pc[p] = "sb_done" /\ result[p] = "201"
    /\ Cardinality(ActiveApplications(1)) = 2

\* The sum of the three counters of a run.
Counted(p) == stats[p].allocated + stats[p].waitlisted + stats[p].errors

\* C31: the run selects exactly the applications that are PENDING or
\* WAITLISTED, each once; while it runs the counters add up to the number of
\* applications it has gone through (plus the one whose error is counted and
\* whose reset is still to come), no step adds more than one, and when the
\* run returns they add up to the number of selected applications.
C31_EveryApplicationCountedOnce ==
    /\ [](pc["r1"] \notin {"idle", "thrown"} =>
            /\ Len(queue["r1"]) = Cardinality(QueueIds("r1"))
            /\ \A i \in 1..Len(queue["r1"]) :
                  queue["r1"][i].status \in {"PENDING", "WAITLISTED"}
            /\ Counted("r1") = idx["r1"] - 1 + (IF pc["r1"] = "r_reset" THEN 1 ELSE 0))
    /\ [](pc["r1"] = "done" => Counted("r1") = Len(queue["r1"]))
    /\ [][/\ Counted("r1")' - Counted("r1") \in {0, 1}
          /\ (pc["r1"] = "idle" /\ pc'["r1"] \notin {"idle", "thrown"}) =>
                QueueIds("r1")' = {a \in Apps : appStatus[a] \in {"PENDING", "WAITLISTED"}}]_vars

\* C31 witness: a run has returned with each of the three counters above
\* zero.
C31_Witness ==
    /\ pc["r1"] = "done"
    /\ stats["r1"].allocated > 0
    /\ stats["r1"].waitlisted > 0
    /\ stats["r1"].errors > 0

\* The free beds in AVAILABLE rooms that pass the hostel filter of
\* application a.
OpenBedsFor(a) ==
    {b \in Beds :
        /\ bedOcc[b] = NULL
        /\ roomStatus[RoomOf(b)] = "AVAILABLE"
        /\ \/ Len(appInfo[a].preferredHostels) = 0
           \/ HostelOf(RoomOf(b)) \in Range(appInfo[a].preferredHostels)}

BedsBoundIn(p, a) == {al.bedId : al \in {x \in allocations : x.id = <<p, a>>}}

\* Bed b is in an AVAILABLE room that passes the hostel filter of
\* application a.
SatisfiesFilter(a, b) ==
    /\ roomStatus[RoomOf(b)] = "AVAILABLE"
    /\ \/ Len(appInfo[a].preferredHostels) = 0
       \/ HostelOf(RoomOf(b)) \in Range(appInfo[a].preferredHostels)

\* The positions of run p whose application got no bed in the run although
\* an application at a later position was bound to a bed passing its filter.
Overtaken(p) ==
    {i \in 1..Len(queue[p]) :
        /\ BedsBoundIn(p, queue[p][i].id) = {}
        /\ \E j \in (i + 1)..Len(queue[p]) :
              \E b \in BedsBoundIn(p, queue[p][j].id) : SatisfiesFilter(queue[p][i].id, b)}

BedsOfStudent(s) == {b \in Beds : bedOcc[b] = s}
AllocationsOfStudent(s) == {al \in allocations : al.studentId = s}

\* C34: under any interleaving a student occupies at most one bed and has at
\* most one Allocation.
C34_OneBedPerStudent ==
    \A s \in Students :
        /\ Cardinality(BedsOfStudent(s)) <= 1
        /\ Cardinality(AllocationsOfStudent(s)) <= 1

\* C34 witness: a student occupies two beds and has two Allocations.
C34_Witness ==
    \E s \in Students :
        /\ Cardinality(BedsOfStudent(s)) = 2
        /\ Cardinality(AllocationsOfStudent(s)) = 2

\* C35: absent store errors, whenever an allocateBed call returns false,
\* every free bed in an AVAILABLE room that passes the call's hostel filter
\* is at that moment locked by another open transaction (or there is none),
\* whether or not the bed was among the candidates of the call.
C35_FalseOnlyWhenNoBedObtainable ==
    [][(pc["c2"] # "c_done" /\ pc'["c2"] = "c_done" /\ result'["c2"] = "false") =>
          \A b \in Eligible("c2") : BedLocked(b, "c2")]_vars

\* C35 witness: the call has returned false while a bed that passes its
\* filter is free, in an AVAILABLE room and locked by nobody.
C35_Witness ==
    /\ pc["c2"] = "c_done" /\ result["c2"] = "false"
    /\ \E b \in Eligible("c2") : ~BedLocked(b, "c2")
    /\ allocations # {}

\* No run is in progress.
NoRunInProgress == \A p \in Runners : pc[p] \in {"idle", "done", "thrown"}

\* C36: whenever no run is in progress, an application is ALLOCATED if and
\* only if exactly one Allocation references it.
C36_AllocatedIffOneAllocation ==
    NoRunInProgress =>
        \A a \in Apps :
            appStatus[a] = "ALLOCATED" <=> Cardinality(AllocationsOfApp(a)) = 1

\* C36 witness: both runs have returned, and an application that an
\* Allocation references is not ALLOCATED, or an ALLOCATED application is
\* referenced by two Allocations.
C36_Witness ==
    /\ \A p \in Runners : pc[p] = "done"
    /\ \E a \in Apps :
          \/ appStatus[a] = "WAITLISTED" /\ Cardinality(AllocationsOfApp(a)) = 1
          \/ appStatus[a] = "ALLOCATED" /\ Cardinality(AllocationsOfApp(a)) = 2

\* C37: whenever the run is not in progress, an application has a
\* WaitlistEntry if and only if its status is WAITLISTED.
C37_EntryIffWaitlisted ==
    pc["r1"] \in {"idle", "done", "thrown"} =>
        \A a \in Apps : EntriesOfApp(a) # {} <=> appStatus[a] = "WAITLISTED"

\* C37 witness: the run has returned its stats with an error counted, and
\* an application that was reset to PENDING has a WaitlistEntry.
C37_Witness ==
    /\ pc["r1"] = "done"
    /\ stats["r1"].errors > 0
    /\ \E a \in Apps : appStatus[a] = "PENDING" /\ EntriesOfApp(a) # {}

====
